---- MODULE Spec2Model ----
(***************************************************************************)
(* Safe Job Platform backend: layered settings composition                 *)
(* (config/settings/base.py, development.py, test.py) and the health       *)
(* endpoint (apps/core/views.py).                                          *)
(*                                                                         *)
(* Python strings that the code inspects character by character (values    *)
(* of environment variables, defaults handed to a cast) are sequences of   *)
(* one-character strings.  Opaque literals (backend names, header values,  *)
(* version numbers) are TLA+ strings.                                      *)
(***************************************************************************)
EXTENDS Integers, Sequences, FiniteSets, TLC

VARIABLES
    profile,    \* settings module chosen by the entry point
    env,        \* os.environ: a function from the names that are set to their values
    pc,         \* "start" | "composed" | "failed" | "booting" | "serving"
    base,       \* namespace left by executing base.py (keys -> values)
    settings,   \* final namespace of the chosen settings module
    error,      \* exception that ended the import, or NoError
    dist,       \* installation state of the safe-job-backend distribution
    requests,   \* request id -> [state, method]
    responses,  \* request id -> response record
    lookups,    \* number of calls made to importlib.metadata.version
    now         \* wall clock

vars == <<profile, env, pc, base, settings, error, dist, requests, responses, lookups, now>>

settingsVars == <<profile, env, base, settings, error>>
serveVars == <<dist, requests, responses, lookups, now>>

-----------------------------------------------------------------------------
(* Bounds of the model *)

\* longest raw value tried for a comma-list variable
MaxLen == 3
\* number of health-check requests in one run
MaxRequests == 2
\* last instant of the wall clock
MaxClock == 1

-----------------------------------------------------------------------------
(* Python string primitives *)

EmptyStr == << >>

IsSpace(c) == c \in {" ", "\t", "\n"}

\* str.lower(), on the letters that occur in the values tried
LowerChar(c) ==
    CASE c = "A" -> "a" [] c = "E" -> "e" [] c = "F" -> "f" [] c = "L" -> "l"
      [] c = "N" -> "n" [] c = "O" -> "o" [] c = "R" -> "r" [] c = "S" -> "s"
      [] c = "T" -> "t" [] c = "U" -> "u" [] c = "Y" -> "y"
      [] OTHER -> c

lower(s) == [i \in 1..Len(s) |-> LowerChar(s[i])]

\* str.strip(): drop leading and trailing whitespace
strip(s) ==
    LET inked == {i \in 1..Len(s) : ~IsSpace(s[i])}
    IN  IF inked = {} THEN << >>
        ELSE SubSeq(s, CHOOSE i \in inked : \A j \in inked : i <= j,
                       CHOOSE i \in inked : \A j \in inked : j <= i)

\* str.split(","): the pieces between consecutive commas, so "" gives [""],
\* "a,b" gives ["a", "b"] and "a," gives ["a", ""]
split(s) ==
    LET commas == {i \in 1..Len(s) : s[i] = ","}
        \* position of the k-th comma; 0 before the first, Len(s) + 1 after the last
        cut(k) == IF k = 0 THEN 0
                  ELSE IF k > Cardinality(commas) THEN Len(s) + 1
                  ELSE CHOOSE i \in commas : Cardinality({j \in commas : j < i}) = k - 1
    IN  [k \in 1..(Cardinality(commas) + 1) |-> SubSeq(s, cut(k - 1) + 1, cut(k) - 1)]

Digits == {"0", "1", "2", "3", "4", "5", "6", "7", "8", "9"}

DigitValue(c) ==
    CASE c = "0" -> 0 [] c = "1" -> 1 [] c = "2" -> 2 [] c = "3" -> 3 [] c = "4" -> 4
      [] c = "5" -> 5 [] c = "6" -> 6 [] c = "7" -> 7 [] c = "8" -> 8 [] c = "9" -> 9

\* value of the first n digits of s
RECURSIVE DecimalPrefix(_, _)
DecimalPrefix(s, n) ==
    IF n = 0 THEN 0 ELSE 10 * DecimalPrefix(s, n - 1) + DigitValue(s[n])

DecimalValue(s) == DecimalPrefix(s, Len(s))

-----------------------------------------------------------------------------
(* Literals of the settings modules *)

DEV_KEY == <<"d", "e", "v", "-", "k", "e", "y", "-", "c", "h", "a", "n", "g", "e", "-", "m", "e">>
TEST_KEY == <<"t", "e", "s", "t", "-", "s", "e", "c", "r", "e", "t", "-", "k", "e", "y", "-", "f", "o", "r", "-", "c", "i", "-", "w", "i", "t", "h", "-", "m", "o", "r", "e", "-", "e", "n", "t", "r", "o", "p", "y", "-", "a", "n", "d", "-", "l", "o", "n", "g", "e", "r", "-", "l", "e", "n", "g", "t", "h", "-", "t", "o", "-", "p", "a", "s", "s", "-", "d", "e", "p", "l", "o", "y", "m", "e", "n", "t", "-", "c", "h", "e", "c", "k", "s">>
S_safejob == <<"s", "a", "f", "e", "j", "o", "b">>
S_safejob_test == <<"s", "a", "f", "e", "j", "o", "b", "_", "t", "e", "s", "t">>
S_test_password == <<"t", "e", "s", "t", "_", "p", "a", "s", "s", "w", "o", "r", "d">>
S_localhost == <<"l", "o", "c", "a", "l", "h", "o", "s", "t">>
S_db == <<"d", "b">>
S_5432 == <<"5", "4", "3", "2">>
S_cors_default == <<"h", "t", "t", "p", ":", "/", "/", "l", "o", "c", "a", "l", "h", "o", "s", "t", ":", "3", "0", "0", "0">>
S_redis_prefix == <<"r", "e", "d", "i", "s", ":", "/", "/", ":">>
S_redis_suffix == <<"@", "r", "e", "d", "i", "s", ":", "6", "3", "7", "9", "/", "1">>
S_test_prefix == <<"t", "e", "s", "t", "_">>
\* str(False) and str(0): the defaults decouple hands to the cast
S_False == <<"F", "a", "l", "s", "e">>
S_0 == <<"0">>

\* one year, the HSTS age of the deployment-check branch
HSTS_ONE_YEAR == 31536000

-----------------------------------------------------------------------------
(* decouple.config *)

NoDefault == [given |-> FALSE, value |-> EmptyStr]
Default(v) == [given |-> TRUE, value |-> v]

Ok(v) == [ok |-> TRUE, val |-> v, err |-> "none"]
Raise(e) == [ok |-> FALSE, val |-> EmptyStr, err |-> e]

\* decouple's table of boolean spellings
BOOLEANS_TRUE == {<<"1">>, <<"y", "e", "s">>, <<"t", "r", "u", "e">>, <<"o", "n">>}
BOOLEANS_FALSE ==
    {<<"0">>, <<"n", "o">>, <<"f", "a", "l", "s", "e">>, <<"o", "f", "f">>, EmptyStr}

\* cast=bool
cast_boolean(v) ==
    IF lower(v) \in BOOLEANS_TRUE THEN Ok(TRUE)
    ELSE IF lower(v) \in BOOLEANS_FALSE THEN Ok(FALSE)
    ELSE Raise("ValueError")

\* cast=int
cast_int(v) ==
    IF v # << >> /\ \A i \in 1..Len(v) : v[i] \in Digits
    THEN Ok(DecimalValue(v))
    ELSE Raise("ValueError")

\* cast=lambda v: [s.strip() for s in v.split(",")]
cast_list(v) == LET parts == split(v) IN Ok([i \in 1..Len(parts) |-> strip(parts[i])])

\* cast=lambda v: [s.strip() for s in v.split(",")] if v else []
cast_list_or_empty(v) == IF v # EmptyStr THEN cast_list(v) ELSE Ok(<< >>)

apply_cast(cast, v) ==
    CASE cast = "none" -> Ok(v)
      [] cast = "bool" -> cast_boolean(v)
      [] cast = "int" -> cast_int(v)
      [] cast = "list" -> cast_list(v)
      [] cast = "list_or_empty" -> cast_list_or_empty(v)

\* a config() whose default shadows the environment
config_default_first(e, option, default, cast) ==
    IF default.given THEN apply_cast(cast, default.value)
    ELSE IF option \in DOMAIN e THEN apply_cast(cast, e[option])
    ELSE Raise("UndefinedValueError")

\* config(option, default=..., cast=...): the environment value if the name is
\* set, else the default, else UndefinedValueError; the cast is applied to
\* whichever value was taken.  (The .env repository file is taken as empty.)
config(e, option, default, cast) ==
    IF option \in DOMAIN e THEN apply_cast(cast, e[option])
    ELSE IF default.given THEN apply_cast(cast, default.value)
    ELSE Raise("UndefinedValueError")

-----------------------------------------------------------------------------
(* config/settings/base.py *)

\* the config() calls of base.py, in the order the module body runs them
BaseOrder ==
    <<"SECRET_KEY", "DEBUG", "ALLOWED_HOSTS", "POSTGRES_DB", "POSTGRES_USER",
      "POSTGRES_PASSWORD", "DB_HOST", "DB_PORT", "REDIS_PASSWORD",
      "CORS_ALLOWED_ORIGINS", "SECURE_SSL_REDIRECT", "SECURE_HSTS_SECONDS",
      "SECURE_HSTS_INCLUDE_SUBDOMAINS", "SECURE_HSTS_PRELOAD",
      "SESSION_COOKIE_SECURE", "CSRF_COOKIE_SECURE", "CSRF_TRUSTED_ORIGINS">>

BaseLookups(e) ==
    [SECRET_KEY |-> config(e, "SECRET_KEY", Default(DEV_KEY), "none"),
     DEBUG |-> config(e, "DEBUG", Default(S_False), "bool"),
     ALLOWED_HOSTS |-> config(e, "ALLOWED_HOSTS", Default(S_localhost), "list"),
     POSTGRES_DB |-> config(e, "POSTGRES_DB", Default(S_safejob), "none"),
     POSTGRES_USER |-> config(e, "POSTGRES_USER", Default(S_safejob), "none"),
     POSTGRES_PASSWORD |-> config(e, "POSTGRES_PASSWORD", NoDefault, "none"),
     DB_HOST |-> config(e, "DB_HOST", Default(S_db), "none"),
     DB_PORT |-> config(e, "DB_PORT", Default(S_5432), "none"),
     REDIS_PASSWORD |-> config(e, "REDIS_PASSWORD", NoDefault, "none"),
     CORS_ALLOWED_ORIGINS |->
         config(e, "CORS_ALLOWED_ORIGINS", Default(S_cors_default), "list"),
     SECURE_SSL_REDIRECT |-> config(e, "SECURE_SSL_REDIRECT", Default(S_False), "bool"),
     SECURE_HSTS_SECONDS |-> config(e, "SECURE_HSTS_SECONDS", Default(S_0), "int"),
     SECURE_HSTS_INCLUDE_SUBDOMAINS |->
         config(e, "SECURE_HSTS_INCLUDE_SUBDOMAINS", Default(S_False), "bool"),
     SECURE_HSTS_PRELOAD |-> config(e, "SECURE_HSTS_PRELOAD", Default(S_False), "bool"),
     SESSION_COOKIE_SECURE |->
         config(e, "SESSION_COOKIE_SECURE", Default(S_False), "bool"),
     CSRF_COOKIE_SECURE |-> config(e, "CSRF_COOKIE_SECURE", Default(S_False), "bool"),
     CSRF_TRUSTED_ORIGINS |->
         config(e, "CSRF_TRUSTED_ORIGINS", Default(EmptyStr), "list_or_empty")]

NoError == [type |-> "none", option |-> "none"]
EmptyNamespace == [k \in {} |-> FALSE]

Loaded(ns) == [ok |-> TRUE, ns |-> ns, error |-> NoError]
Failed(type, option) ==
    [ok |-> FALSE, ns |-> EmptyNamespace, error |-> [type |-> type, option |-> option]]

\* the namespace base.py leaves when every lookup r succeeded
BaseNamespace(r) ==
    [SECRET_KEY |-> r.SECRET_KEY.val,
     DEBUG |-> r.DEBUG.val,
     ALLOWED_HOSTS |-> r.ALLOWED_HOSTS.val,
     INSTALLED_APPS |-> {"django.contrib.gis", "rest_framework", "corsheaders", "apps.core"},
     DATABASES |->
         [ENGINE |-> "django.contrib.gis.db.backends.postgis",
          NAME |-> r.POSTGRES_DB.val,
          USER |-> r.POSTGRES_USER.val,
          PASSWORD |-> r.POSTGRES_PASSWORD.val,
          HOST |-> r.DB_HOST.val,
          PORT |-> r.DB_PORT.val,
          sslmode |-> "prefer"],
     CACHES |->
         [BACKEND |-> "django_redis.cache.RedisCache",
          LOCATION |-> S_redis_prefix \o r.REDIS_PASSWORD.val \o S_redis_suffix],
     TIME_ZONE |-> "Europe/Amsterdam",
     STATICFILES_DIRS |-> <<"static">>,
     CORS_ALLOWED_ORIGINS |-> r.CORS_ALLOWED_ORIGINS.val,
     CORS_ALLOW_CREDENTIALS |-> TRUE,
     SECURE_SSL_REDIRECT |-> r.SECURE_SSL_REDIRECT.val,
     SECURE_HSTS_SECONDS |-> r.SECURE_HSTS_SECONDS.val,
     SECURE_HSTS_INCLUDE_SUBDOMAINS |-> r.SECURE_HSTS_INCLUDE_SUBDOMAINS.val,
     SECURE_HSTS_PRELOAD |-> r.SECURE_HSTS_PRELOAD.val,
     SESSION_COOKIE_SECURE |-> r.SESSION_COOKIE_SECURE.val,
     CSRF_COOKIE_SECURE |-> r.CSRF_COOKIE_SECURE.val,
     SESSION_COOKIE_HTTPONLY |-> TRUE,
     CSRF_COOKIE_HTTPONLY |-> TRUE,
     SECURE_BROWSER_XSS_FILTER |-> TRUE,
     SECURE_CONTENT_TYPE_NOSNIFF |-> TRUE,
     X_FRAME_OPTIONS |-> "DENY",
     CSRF_TRUSTED_ORIGINS |-> r.CSRF_TRUSTED_ORIGINS.val]

\* executing base.py: the first config() call that raises ends the import
FirstFailure(r) ==
    LET failing == {i \in 1..Len(BaseOrder) : ~r[BaseOrder[i]].ok}
    IN  IF failing = {} THEN 0 ELSE CHOOSE i \in failing : \A j \in failing : i <= j

\* (a value bound in a singleton set is computed once)
base_py(e) ==
    CHOOSE out \in
        {IF i = 0 THEN Loaded(BaseNamespace(r))
                  ELSE Failed(r[BaseOrder[i]].err, BaseOrder[i]) :
            <<r, i>> \in {<<x, FirstFailure(x)>> : x \in {BaseLookups(e)}}} : TRUE

\* a star-import that runs after the assignments: the imported names win
rebind_import_last(ns, assignments) == ns @@ assignments

\* module-level assignments after "from .base import *": a name the module
\* assigns is rebound, every other name keeps the imported value
rebind(ns, assignments) == assignments @@ ns

-----------------------------------------------------------------------------
(* config/settings/development.py *)

DevelopmentAssignments ==
    [DEBUG |-> TRUE,
     LOGGING |-> [handler |-> "console", level |-> "DEBUG"],
     EMAIL_BACKEND |-> "django.core.mail.backends.console.EmailBackend"]

development_py(e) ==
    CHOOSE out \in
        {IF b.ok THEN Loaded(rebind(b.ns, DevelopmentAssignments)) ELSE b :
            b \in {base_py(e)}} : TRUE

-----------------------------------------------------------------------------
(* config/settings/test.py *)

S_true == <<"t", "r", "u", "e">>

\* os.environ.get("DJANGO_DEPLOYMENT_CHECKS", "False").lower() == "true"
RUNNING_DEPLOYMENT_CHECKS(e) ==
    lower(IF "DJANGO_DEPLOYMENT_CHECKS" \in DOMAIN e
          THEN e["DJANGO_DEPLOYMENT_CHECKS"] ELSE S_False) = S_true

\* an else branch that forgets SECURE_SSL_REDIRECT and SECURE_HSTS_SECONDS
TestSecurity_partial_else(flag) ==
    IF flag
    THEN [SECURE_HSTS_SECONDS |-> HSTS_ONE_YEAR,
          SECURE_HSTS_INCLUDE_SUBDOMAINS |-> TRUE,
          SECURE_HSTS_PRELOAD |-> TRUE,
          SECURE_SSL_REDIRECT |-> TRUE,
          SESSION_COOKIE_SECURE |-> TRUE,
          CSRF_COOKIE_SECURE |-> TRUE]
    ELSE [SECURE_HSTS_INCLUDE_SUBDOMAINS |-> FALSE,
          SECURE_HSTS_PRELOAD |-> FALSE,
          SESSION_COOKIE_SECURE |-> FALSE,
          CSRF_COOKIE_SECURE |-> FALSE]

\* the if/else on RUNNING_DEPLOYMENT_CHECKS
TestSecurity(flag) ==
    IF flag
    THEN [SECURE_HSTS_SECONDS |-> HSTS_ONE_YEAR,
          SECURE_HSTS_INCLUDE_SUBDOMAINS |-> TRUE,
          SECURE_HSTS_PRELOAD |-> TRUE,
          SECURE_SSL_REDIRECT |-> TRUE,
          SESSION_COOKIE_SECURE |-> TRUE,
          CSRF_COOKIE_SECURE |-> TRUE]
    ELSE [SECURE_HSTS_SECONDS |-> 0,
          SECURE_HSTS_INCLUDE_SUBDOMAINS |-> FALSE,
          SECURE_HSTS_PRELOAD |-> FALSE,
          SECURE_SSL_REDIRECT |-> FALSE,
          SESSION_COOKIE_SECURE |-> FALSE,
          CSRF_COOKIE_SECURE |-> FALSE]

TestDatabases(e) ==
    [ENGINE |-> "django.contrib.gis.db.backends.postgis",
     NAME |-> config(e, "POSTGRES_DB", Default(S_safejob_test), "none").val,
     USER |-> config(e, "POSTGRES_USER", Default(S_safejob_test), "none").val,
     PASSWORD |-> config(e, "POSTGRES_PASSWORD", Default(S_test_password), "none").val,
     HOST |-> config(e, "DB_HOST", Default(S_localhost), "none").val,
     PORT |-> config(e, "DB_PORT", Default(S_5432), "none").val,
     TEST_NAME |->
         S_test_prefix \o config(e, "POSTGRES_DB", Default(S_safejob_test), "none").val,
     sslmode |-> "disable"]

TestAssignments(e) ==
    [DEBUG |-> FALSE,
     TESTING |-> TRUE,
     DATABASES |-> TestDatabases(e),
     MIGRATION_MODULES |-> "DisableMigrations",
     CACHES |-> [BACKEND |-> "django.core.cache.backends.locmem.LocMemCache"],
     EMAIL_BACKEND |-> "django.core.mail.backends.locmem.EmailBackend",
     AUTH_PASSWORD_VALIDATORS |-> << >>,
     DEFAULT_FILE_STORAGE |-> "django.core.files.storage.InMemoryStorage",
     STATICFILES_STORAGE |-> "django.contrib.staticfiles.storage.StaticFilesStorage",
     LOGGING |-> [handler |-> "null", level |-> "CRITICAL"],
     PASSWORD_HASHERS |-> <<"django.contrib.auth.hashers.MD5PasswordHasher">>,
     CORS_ALLOW_ALL_ORIGINS |-> TRUE,
     TEST_RUNNER |-> "django.test.runner.DiscoverRunner",
     RUNNING_DEPLOYMENT_CHECKS |-> RUNNING_DEPLOYMENT_CHECKS(e),
     SECURE_BROWSER_XSS_FILTER |-> TRUE,
     SECURE_CONTENT_TYPE_NOSNIFF |-> TRUE,
     X_FRAME_OPTIONS |-> "DENY",
     SECRET_KEY |-> TEST_KEY,
     STATICFILES_DIRS |-> << >>]
    @@ TestSecurity(RUNNING_DEPLOYMENT_CHECKS(e))

test_py(e) ==
    CHOOSE out \in
        {IF b.ok THEN Loaded(rebind(b.ns, TestAssignments(e))) ELSE b :
            b \in {base_py(e)}} : TRUE

-----------------------------------------------------------------------------
(* Importing the chosen settings module *)

Profiles == {"development", "test", "production"}

\* production runs on the base module alone
settings_module(p, e) ==
    CASE p = "development" -> development_py(e)
      [] p = "test" -> test_py(e)
      [] p = "production" -> base_py(e)

-----------------------------------------------------------------------------
(* The environments tried *)

\* spellings given to the boolean variables DEBUG and DJANGO_DEPLOYMENT_CHECKS
Spellings ==
    {<<"t", "r", "u", "e">>, <<"T", "R", "U", "E">>, <<"1">>, <<"y", "e", "s">>,
     <<"O", "n">>, <<"f", "a", "l", "s", "e">>, <<"0">>, <<"m", "a", "y", "b", "e">>}

ListAlphabet == {"a", "b", ",", " "}
ListStrings ==
    UNION {[1..k -> ListAlphabet] : k \in 0..MaxLen}
        \cup {<<"a", ",", " ", "b", ",", "c">>, <<"a", ",", " ", ",", "b", " ">>}

SecurityBools ==
    {"SECURE_SSL_REDIRECT", "SECURE_HSTS_INCLUDE_SUBDOMAINS", "SECURE_HSTS_PRELOAD",
     "SESSION_COOKIE_SECURE", "CSRF_COOKIE_SECURE"}
SecurityVars == SecurityBools \cup {"SECURE_HSTS_SECONDS"}
ListVars == {"ALLOWED_HOSTS", "CORS_ALLOWED_ORIGINS", "CSRF_TRUSTED_ORIGINS"}
CredentialVars == {"POSTGRES_PASSWORD", "REDIS_PASSWORD"}
DatabaseVars == {"POSTGRES_DB", "POSTGRES_USER", "DB_HOST", "DB_PORT"}

Values(name) ==
    CASE name \in {"DEBUG", "DJANGO_DEPLOYMENT_CHECKS"} -> Spellings
      [] name = "SECURE_SSL_REDIRECT" -> {<<"t", "r", "u", "e">>, <<"0">>}
      [] name = "SESSION_COOKIE_SECURE" -> {<<"t", "r", "u", "e">>, <<"Y", "e", "s">>}
      [] name \in SecurityBools -> {<<"t", "r", "u", "e">>}
      [] name = "SECURE_HSTS_SECONDS" ->
            {<<"3", "1", "5", "3", "6", "0", "0", "0">>, <<"6", "0">>, <<"1", "y">>}
      [] name \in ListVars -> ListStrings
      [] name = "SECRET_KEY" -> {<<"s", "3", "c", "r", "3", "t">>}
      [] name = "POSTGRES_PASSWORD" -> {<<"p", "w">>}
      [] name = "REDIS_PASSWORD" -> {<<"r", "p", "w">>}
      [] name = "DB_PORT" -> {<<"5", "4", "3", "3">>}
      [] OTHER -> {<<"j", "o", "b", "s">>}

\* every environment that sets some of the names in Ns
RECURSIVE EnvsOver(_)
EnvsOver(Ns) ==
    IF Ns = {} THEN {EmptyNamespace}
    ELSE LET n == CHOOSE x \in Ns : TRUE
             rest == EnvsOver(Ns \ {n})
         IN  rest \cup {(n :> v) @@ e : v \in Values(n), e \in rest}

\* The credentials vary freely; beside them one group of variables at a time
\* departs from its defaults.
EnvSpace ==
    {c @@ g : c \in EnvsOver(CredentialVars),
              g \in EnvsOver(SecurityVars \cup {"DJANGO_DEPLOYMENT_CHECKS"})
                    \cup EnvsOver({"DEBUG", "DJANGO_DEPLOYMENT_CHECKS", "SECRET_KEY"})
                    \cup EnvsOver(DatabaseVars)
                    \cup UNION {EnvsOver({n}) : n \in ListVars}}

\* an environment a deployment serves traffic with
ServeEnv == ("POSTGRES_PASSWORD" :> <<"p", "w">>) @@ ("REDIS_PASSWORD" :> <<"r", "p", "w">>)

-----------------------------------------------------------------------------
(* apps/core/views.py *)

FALLBACK_VERSION == "0.1.0"
SERVICE_NAME == "safe-job-backend"

\* what importlib.metadata finds for "safe-job-backend": an installed
\* distribution, none at all, or dist-info whose METADATA cannot be read
\* (the read raises something other than PackageNotFoundError)
Installations ==
    {[kind |-> "installed", version |-> "1.4.2"],
     [kind |-> "installed", version |-> "0.1.0"],
     [kind |-> "missing", version |-> ""],
     [kind |-> "unreadable", version |-> ""]}

\* importlib.metadata.version("safe-job-backend")
metadata_version(d) ==
    CASE d.kind = "installed" -> [raised |-> "none", value |-> d.version]
      [] d.kind = "missing" -> [raised |-> "PackageNotFoundError", value |-> ""]
      [] d.kind = "unreadable" -> [raised |-> "UnicodeDecodeError", value |-> ""]

\* try: return version(...)  except PackageNotFoundError: return "0.1.0"
get_version(d) ==
    LET r == metadata_version(d)
    IN  IF r.raised = "PackageNotFoundError"
        THEN [raised |-> "none", value |-> FALLBACK_VERSION]
        ELSE r

Methods == {"GET", "POST", "PUT", "DELETE", "PATCH", "HEAD"}

NoBody == [k \in {} |-> ""]
NoResponse == [status |-> 0, contentType |-> "", allow |-> {}, body |-> NoBody]

\* timezone.now().isoformat(): the instant with its UTC offset (USE_TZ = True)
isoformat(t) == [instant |-> t, offset |-> "+00:00"]

\* the undecorated view: JsonResponse of the four fields; an exception leaving
\* the view becomes the framework's 500 response
health_check_body(d, t) ==
    LET v == get_version(d)
    IN  IF v.raised # "none"
        THEN [status |-> 500, contentType |-> "text/html; charset=utf-8",
              allow |-> {}, body |-> NoBody]
        ELSE [status |-> 200, contentType |-> "application/json", allow |-> {},
              body |-> [status |-> "healthy", service |-> SERVICE_NAME,
                        version |-> v.value, timestamp |-> isoformat(t)]]

\* a decorator that lets POST through as well
require_http_methods_and_post(allowed, method) == method \in allowed \cup {"POST"}

\* @require_http_methods(allowed): HttpResponseNotAllowed unless the method is listed
require_http_methods(allowed, method) == method \in allowed

\* the decorated view
health_check(method, d, t) ==
    IF require_http_methods({"GET"}, method)
    THEN health_check_body(d, t)
    ELSE [status |-> 405, contentType |-> "text/html; charset=utf-8",
          allow |-> {"GET"}, body |-> NoBody]

\* a view that reads a version resolved elsewhere and never calls the lookup
lookups_made_never(method) == 0

\* calls of importlib.metadata.version made while answering one request
lookups_made(method) == IF require_http_methods({"GET"}, method) THEN 1 ELSE 0

-----------------------------------------------------------------------------
(* Startup: the entry point imports the chosen settings module *)

Idle == [state |-> "idle", method |-> "none"]
RequestIds == 1..MaxRequests

ServeIdle ==
    /\ dist = [kind |-> "missing", version |-> ""]
    /\ requests = [r \in RequestIds |-> Idle]
    /\ responses = [r \in RequestIds |-> NoResponse]
    /\ lookups = 0
    /\ now = 0

Init ==
    /\ profile \in Profiles
    /\ env \in EnvSpace
    /\ pc = "start"
    /\ base = EmptyNamespace
    /\ settings = EmptyNamespace
    /\ error = NoError
    /\ ServeIdle

\* import of config.settings.development: base.py runs first, then the
\* module's own body
ComposeDevelopment ==
    /\ pc = "start"
    /\ profile = "development"
    /\ \E b \in {base_py(env)}, m \in {development_py(env)} :
           /\ base' = b.ns
           /\ settings' = m.ns
           /\ error' = m.error
           /\ pc' = IF m.ok THEN "composed" ELSE "failed"
    /\ UNCHANGED <<profile, env>>
    /\ UNCHANGED serveVars

\* import of config.settings.test
ComposeTest ==
    /\ pc = "start"
    /\ profile = "test"
    /\ \E b \in {base_py(env)}, m \in {test_py(env)} :
           /\ base' = b.ns
           /\ settings' = m.ns
           /\ error' = m.error
           /\ pc' = IF m.ok THEN "composed" ELSE "failed"
    /\ UNCHANGED <<profile, env>>
    /\ UNCHANGED serveVars

\* import of config.settings.base alone (production)
ComposeProduction ==
    /\ pc = "start"
    /\ profile = "production"
    /\ \E b \in {base_py(env)} :
           /\ base' = b.ns
           /\ settings' = b.ns
           /\ error' = b.error
           /\ pc' = IF b.ok THEN "composed" ELSE "failed"
    /\ UNCHANGED <<profile, env>>
    /\ UNCHANGED serveVars

Next == ComposeDevelopment \/ ComposeTest \/ ComposeProduction

Spec == Init /\ [][Next]_vars

-----------------------------------------------------------------------------
(* Serving: requests to the health endpoint *)

InitServe ==
    /\ profile \in Profiles
    /\ env = ServeEnv
    /\ pc = "booting"
    /\ base = base_py(env).ns
    /\ settings = settings_module(profile, env).ns
    /\ error = NoError
    /\ dist \in Installations
    /\ requests = [r \in RequestIds |-> Idle]
    /\ responses = [r \in RequestIds |-> NoResponse]
    /\ lookups = 0
    /\ now = 0

\* the URLconf imports apps.core.views: the module body only defines the two
\* functions
StartServing ==
    /\ pc = "booting"
    /\ pc' = "serving"
    /\ UNCHANGED settingsVars
    /\ UNCHANGED serveVars

\* a request for /health/ arrives
Receive(r, m) ==
    /\ pc = "serving"
    /\ requests[r].state = "idle"
    /\ requests' = [requests EXCEPT ![r] = [state |-> "pending", method |-> m]]
    /\ UNCHANGED <<pc, dist, responses, lookups, now>>
    /\ UNCHANGED settingsVars

\* a worker runs the decorated view on a pending request
Handle(r) ==
    /\ pc = "serving"
    /\ requests[r].state = "pending"
    /\ responses' = [responses EXCEPT ![r] = health_check(requests[r].method, dist, now)]
    /\ lookups' = lookups + lookups_made(requests[r].method)
    /\ requests' = [requests EXCEPT ![r].state = "done"]
    /\ UNCHANGED <<pc, dist, now>>
    /\ UNCHANGED settingsVars

Tick ==
    /\ now < MaxClock
    /\ now' = now + 1
    /\ UNCHANGED <<pc, dist, requests, responses, lookups>>
    /\ UNCHANGED settingsVars

NextServe ==
    \/ StartServing
    \/ \E r \in RequestIds, m \in Methods : Receive(r, m)
    \/ \E r \in RequestIds : Handle(r)
    \/ Tick

SpecServe == InitServe /\ [][NextServe]_vars

-----------------------------------------------------------------------------
(* Vocabulary of the properties *)

Strict ==
    [hstsSeconds |-> 31536000, hstsIncludeSubdomains |-> TRUE, hstsPreload |-> TRUE,
     sslRedirect |-> TRUE, sessionCookieSecure |-> TRUE, csrfCookieSecure |-> TRUE]
Relaxed ==
    [hstsSeconds |-> 0, hstsIncludeSubdomains |-> FALSE, hstsPreload |-> FALSE,
     sslRedirect |-> FALSE, sessionCookieSecure |-> FALSE, csrfCookieSecure |-> FALSE]

SecurityPolicy(ns) ==
    [hstsSeconds |-> ns.SECURE_HSTS_SECONDS,
     hstsIncludeSubdomains |-> ns.SECURE_HSTS_INCLUDE_SUBDOMAINS,
     hstsPreload |-> ns.SECURE_HSTS_PRELOAD,
     sslRedirect |-> ns.SECURE_SSL_REDIRECT,
     sessionCookieSecure |-> ns.SESSION_COOKIE_SECURE,
     csrfCookieSecure |-> ns.CSRF_COOKIE_SECURE]

Composed == pc = "composed"
IsSet(name) == name \in DOMAIN env

Done(r) == requests[r].state = "done"
DoneGets == {r \in RequestIds : Done(r) /\ requests[r].method = "GET"}

HealthKeys == {"status", "service", "version", "timestamp"}

\* the common spellings of true, lower case
CommonTruthy == {<<"t", "r", "u", "e">>, <<"y", "e", "s">>, <<"o", "n">>, <<"1">>}

DevelopmentKeys == {"DEBUG", "LOGGING", "EMAIL_BACKEND"}
TestKeys ==
    {"DEBUG", "TESTING", "DATABASES", "MIGRATION_MODULES", "CACHES", "EMAIL_BACKEND",
     "AUTH_PASSWORD_VALIDATORS", "DEFAULT_FILE_STORAGE", "STATICFILES_STORAGE",
     "LOGGING", "PASSWORD_HASHERS", "CORS_ALLOW_ALL_ORIGINS", "TEST_RUNNER",
     "RUNNING_DEPLOYMENT_CHECKS", "SECURE_HSTS_SECONDS",
     "SECURE_HSTS_INCLUDE_SUBDOMAINS", "SECURE_HSTS_PRELOAD", "SECURE_SSL_REDIRECT",
     "SESSION_COOKIE_SECURE", "CSRF_COOKIE_SECURE", "SECURE_BROWSER_XSS_FILTER",
     "SECURE_CONTENT_TYPE_NOSNIFF", "X_FRAME_OPTIONS", "SECRET_KEY", "STATICFILES_DIRS"}

RECURSIVE Join(_)
Join(parts) ==
    IF Len(parts) = 0 THEN << >>
    ELSE IF Len(parts) = 1 THEN parts[1]
    ELSE parts[1] \o <<",">> \o Join(Tail(parts))

Inked(s) == SelectSeq(s, LAMBDA c : ~IsSpace(c))
Trimmed(s) == s = << >> \/ (~IsSpace(s[1]) /\ ~IsSpace(s[Len(s)]))

\* parts is the comma-separated reading of raw: one part per comma plus one,
\* each trimmed and comma-free, in the order of raw
IsCommaList(raw, parts) ==
    /\ Len(parts) = Cardinality({i \in 1..Len(raw) : raw[i] = ","}) + 1
    /\ \A i \in 1..Len(parts) :
           Trimmed(parts[i]) /\ \A j \in 1..Len(parts[i]) : parts[i][j] # ","
    /\ Inked(Join(parts)) = Inked(raw)

-----------------------------------------------------------------------------
(* Properties of the health endpoint, under SpecServe *)

\* C1: every handled request whose method is not GET is answered 405 with no
\* HealthStatus body, and the view body (version lookup, timestamp) has run
\* only for GET requests.
C1_NonGetIs405 ==
    /\ \A r \in RequestIds :
           Done(r) /\ requests[r].method # "GET" =>
               /\ responses[r].status = 405
               /\ DOMAIN responses[r].body = {}
    /\ lookups <= Cardinality(DoneGets)

C1_Witness ==
    \E r \in RequestIds :
        Done(r) /\ requests[r].method = "DELETE" /\ responses[r].status = 405

\* C2: every handled GET request, whatever the version lookup did, is answered
\* 200, application/json, with exactly the keys status, service, version,
\* timestamp, status "healthy" and service "safe-job-backend".
C2_GetIs200 ==
    \A r \in DoneGets :
        /\ responses[r].status = 200
        /\ responses[r].contentType = "application/json"
        /\ DOMAIN responses[r].body = HealthKeys
        /\ responses[r].body.status = "healthy"
        /\ responses[r].body.service = "safe-job-backend"

\* C3: version resolution never raises and never yields the empty string: a
\* handled GET reports the installed distribution's version when the lookup
\* succeeds and the fallback "0.1.0" when the lookup fails for any reason.
C3_VersionNeverRaises ==
    \A r \in DoneGets :
        /\ responses[r].status # 500
        /\ "version" \in DOMAIN responses[r].body
        /\ responses[r].body.version # ""
        /\ dist.kind = "installed" => responses[r].body.version = dist.version
        /\ dist.kind # "installed" => responses[r].body.version = "0.1.0"

\* C10 as stated: once the process serves traffic no step performs the
\* package-metadata lookup (it was done once, at startup).
C10_NoLookupWhileServing == [][pc = "serving" => lookups' = lookups]_vars

\* C10 amended: startup performs no lookup; every handled GET request performs
\* exactly one, a rejected request none; and handling a request changes
\* nothing but that request's own record and response (and the call count).
C10_LookupPerGet ==
    /\ pc = "booting" => lookups = 0
    /\ lookups = Cardinality(DoneGets)
    /\ \A r \in RequestIds : ~Done(r) => responses[r] = NoResponse

C10_Witness == pc = "serving" /\ lookups = 2

-----------------------------------------------------------------------------
(* Properties of settings composition, under Spec *)

\* C4: in the test profile the six security settings are exactly Strict when
\* the deployment-checks flag is true and exactly Relaxed when it is false,
\* whatever the SECURE_* and *_COOKIE_SECURE variables say.
C4_TestPolicyFollowsFlag ==
    Composed /\ profile = "test" =>
        /\ settings.RUNNING_DEPLOYMENT_CHECKS => SecurityPolicy(settings) = Strict
        /\ ~settings.RUNNING_DEPLOYMENT_CHECKS => SecurityPolicy(settings) = Relaxed

C4_Witness ==
    /\ Composed /\ profile = "test"
    /\ ~settings.RUNNING_DEPLOYMENT_CHECKS
    /\ IsSet("SECURE_SSL_REDIRECT") /\ IsSet("SECURE_HSTS_SECONDS")
    /\ base.SECURE_SSL_REDIRECT /\ base.SECURE_HSTS_SECONDS = 60
    /\ SecurityPolicy(settings) = Relaxed

\* C5: for each comma-list key the cast maps the empty string to the empty
\* list, and a non-empty value to its comma-separated parts, trimmed, in order.
C5_CommaListCast ==
    Composed =>
        \A k \in ListVars :
            IsSet(k) =>
                /\ env[k] = EmptyStr => settings[k] = << >>
                /\ env[k] # EmptyStr => IsCommaList(env[k], settings[k])

\* C6: with POSTGRES_PASSWORD unset, importing the development or the base
\* profile fails, while importing the test profile succeeds with the database
\* password "test_password".
C6_PasswordFatalOnlyOutsideTest ==
    pc # "start" /\ ~IsSet("POSTGRES_PASSWORD") =>
        IF profile = "test"
        THEN Composed /\ settings.DATABASES.PASSWORD = S_test_password
        ELSE pc = "failed"

\* C7: a key the override profile assigns has the override's value whatever
\* the environment fed the base value (development: DEBUG = True; test:
\* DEBUG = False and SECRET_KEY the test literal, never "" nor
\* "dev-key-change-me"); every other key keeps the value base.py computed.
C7_OverrideSemantics ==
    Composed =>
        /\ profile = "development" =>
               /\ settings.DEBUG = TRUE
               /\ \A k \in DevelopmentKeys : settings[k] = DevelopmentAssignments[k]
               /\ DOMAIN settings = DOMAIN base \cup DevelopmentKeys
               /\ \A k \in DOMAIN base \ DevelopmentKeys : settings[k] = base[k]
        /\ profile = "test" =>
               /\ settings.DEBUG = FALSE
               /\ settings.SECRET_KEY = TEST_KEY
               /\ settings.SECRET_KEY # EmptyStr
               /\ settings.SECRET_KEY # DEV_KEY
               /\ \A k \in TestKeys : settings[k] = TestAssignments(env)[k]
               /\ DOMAIN settings = DOMAIN base \cup TestKeys
               /\ \A k \in DOMAIN base \ TestKeys : settings[k] = base[k]
        /\ profile = "production" => settings = base

C7_Witness ==
    /\ Composed /\ profile = "development"
    /\ IsSet("DEBUG") /\ base.DEBUG = FALSE /\ settings.DEBUG = TRUE

\* C8 as stated: in every composed Settings, whatever the profile, the
\* SecurityPolicy is Strict or Relaxed.
C8_PolicyAlwaysCanonical == Composed => SecurityPolicy(settings) \in {Strict, Relaxed}

\* C8 amended: in the test profile the SecurityPolicy is Strict or Relaxed; in
\* the development and base (production) profiles each field is the reading of
\* its own environment variable (false, 0 when unset), so the policy is Relaxed
\* when none is set and may be mixed otherwise.
C8_PolicyCanonicalInTestOnly ==
    Composed =>
        /\ profile = "test" => SecurityPolicy(settings) \in {Strict, Relaxed}
        /\ profile # "test" =>
               LET on(name) == IsSet(name) /\ lower(env[name]) \in CommonTruthy
               IN  /\ settings.SECURE_SSL_REDIRECT = on("SECURE_SSL_REDIRECT")
                   /\ settings.SECURE_HSTS_INCLUDE_SUBDOMAINS =
                          on("SECURE_HSTS_INCLUDE_SUBDOMAINS")
                   /\ settings.SECURE_HSTS_PRELOAD = on("SECURE_HSTS_PRELOAD")
                   /\ settings.SESSION_COOKIE_SECURE = on("SESSION_COOKIE_SECURE")
                   /\ settings.CSRF_COOKIE_SECURE = on("CSRF_COOKIE_SECURE")
                   /\ ~IsSet("SECURE_HSTS_SECONDS") => settings.SECURE_HSTS_SECONDS = 0
                   /\ env = ServeEnv => SecurityPolicy(settings) = Relaxed

C8_Witness ==
    /\ Composed /\ profile = "production"
    /\ SecurityPolicy(settings) \notin {Strict, Relaxed}

\* C9: the test profile's flag is cast like any boolean key: a common truthy
\* spelling (true, yes, on, 1, any case) selects Strict, the absent variable
\* selects Relaxed, and the flag agrees with DEBUG given the same string.
C9_FlagCastLikeBool ==
    Composed /\ profile = "test" =>
        /\ ~IsSet("DJANGO_DEPLOYMENT_CHECKS") => SecurityPolicy(settings) = Relaxed
        /\ IsSet("DJANGO_DEPLOYMENT_CHECKS") =>
               /\ lower(env["DJANGO_DEPLOYMENT_CHECKS"]) \in CommonTruthy =>
                      SecurityPolicy(settings) = Strict
               /\ IsSet("DEBUG") /\ env["DEBUG"] = env["DJANGO_DEPLOYMENT_CHECKS"] =>
                      settings.RUNNING_DEPLOYMENT_CHECKS = base.DEBUG

====
